---- MODULE Spec2Model ----
(***************************************************************************)
(* Survival-3D: the resource-node gathering/respawn lifecycle              *)
(* (src/resources.js) and the creature AI state machine with combat and    *)
(* loot (src/creatures.js), with the callers that drive them               *)
(* (src/unnamed/part_001, the Player; src/main.js, the frame loop).        *)
(*                                                                         *)
(* Conventions of the model                                                *)
(*  - Times are milliseconds.  A pending setTimeout is a record carrying   *)
(*    the time left until it is due; time cannot pass a due callback.      *)
(*  - The world is one-dimensional: a position is an integer coordinate    *)
(*    and distanceTo is the absolute difference.                           *)
(*  - A multiplier is a rational [n, d] (n/d), so that 1.5 is [3, 2].      *)
(*  - Rendering (meshes, particles, animations of colour and scale) is not *)
(*    modelled, except for the gather indicator's visible flag and the     *)
(*    scale of a dying creature's mesh, which decides when it is removed.  *)
(*  - The player is the creature system's collaborator: its position is an *)
(*    input, and the takeDamage calls made on it are recorded.             *)
(***************************************************************************)
EXTENDS Integers, Sequences, FiniteSets

VARIABLES
    resourceNodes,  \* ResourceSystem.resourceNodes: sequence of node records
    timeouts,       \* pending setTimeout callbacks, in registration order
    gatherReturn,   \* the node and the value of the last gatherResource call
    gatherRun,      \* per node: the gather calls since the node was last fresh
    nearestResource, \* player.nearestResource: the index of the node, 0 for null
    creatures,      \* CreatureSystem.creatures: sequence of creature records
    playerPosition, \* player.position
    groundItems,    \* the createGroundItem calls made by dropLoot, in order
    spawned,        \* how many creatures spawnCreature has built (the next id)
    damageCall,     \* the last damageCreature call: its creature, and whether it was dead
    attacks,        \* the performAttack calls of the last update, in order
    attackClock,    \* per creature id: its performAttack calls on the wall clock
    frames,         \* how many frames have run
    spawnCall,      \* the last spawnRandomCreature call: its draws and what it did
    inventory       \* whether window.game.inventory exists

nodeVars == <<resourceNodes, timeouts, gatherReturn, gatherRun, nearestResource>>

creatureVars ==
    <<creatures, playerPosition, groundItems, spawned, damageCall, attacks, attackClock,
      frames, spawnCall, inventory>>

vars ==
    <<resourceNodes, timeouts, gatherReturn, gatherRun, nearestResource,
      creatures, playerPosition, groundItems, spawned, damageCall, attacks, attackClock,
      frames, spawnCall, inventory>>

----------------------------------------------------------------------------
(* Bounds and input sets *)

MaxNodes == 2

\* the types environment.js creates, and one that takes the defaults
NodeTypes == {"tree", "rock", "plant", "bush"}

\* where createResourceNode places nodes when the resource system runs alone
NodeXs == {0}

\* 1, 1.5, 2 are the multipliers of the shipped tools; 2.5 stands for "more"
Multipliers ==
    { [n |-> 1, d |-> 1], [n |-> 3, d |-> 2], [n |-> 2, d |-> 1], [n |-> 5, d |-> 2] }

Elapses == {30000, 60000}

----------------------------------------------------------------------------
(* General helpers *)

Min(a, b) == IF a <= b THEN a ELSE b

Abs(a) == IF a < 0 THEN -a ELSE a

\* THREE.Vector3.distanceTo in the one-dimensional world
distanceTo(a, b) == Abs(a - b)

\* Math.floor(amount * m) for a non-negative amount and multiplier
FloorTimes(amount, m) == (amount * m.n) \div m.d

Undefined == [type |-> "undefined", amount |-> 0]

Null == [type |-> "null", amount |-> 0]

----------------------------------------------------------------------------
(* ResourceSystem, src/resources.js *)

getMaxHealth(type) ==
    CASE type = "tree" -> 5
      [] type = "rock" -> 8
      [] type = "plant" -> 2
      [] OTHER -> 3

getResourceDrop(type) ==
    CASE type = "tree" -> [type |-> "wood", amount |-> 1]
      [] type = "rock" -> [type |-> "stone", amount |-> 1]
      [] type = "plant" -> [type |-> "fiber", amount |-> 2]
      [] OTHER -> Null

respawnTime == 60000

\* the node object built by createResourceNode
newNode(type, x) ==
    [ type |-> type,
      position |-> x,
      health |-> getMaxHealth(type),
      maxHealth |-> getMaxHealth(type),
      canGather |-> TRUE,
      respawnTime |-> respawnTime,
      indicator |-> FALSE ]        \* indicator.visible

\* mutant: the double damage only above 2x
damageDealt_Above2(m) == IF m.n > 2 * m.d THEN 2 ELSE 1

damageDealt(m) == IF m.n >= 2 * m.d THEN 2 ELSE 1

\* the node fields after depleteNode
depleteNode(node) ==
    [node EXCEPT !.canGather = FALSE, !.indicator = FALSE]

\* the callback depleteNode registers with setTimeout
respawnTimeout(i, node) == [fn |-> "respawnNode", node |-> i, left |-> node.respawnTime]

\* mutant: respawn re-enables gathering without restoring health
respawnNode_NoHeal(node) ==
    [node EXCEPT !.canGather = TRUE, !.indicator = TRUE]

\* the node fields after respawnNode
respawnNode(node) ==
    [node EXCEPT !.health = node.maxHealth, !.canGather = TRUE, !.indicator = TRUE]

\* mutant: the multiplier is not applied to the returned amount
gatherDrop_Unscaled(node, m) == getResourceDrop(node.type)

\* the value gatherResource returns for a node it accepted
gatherDrop(node, m) ==
    LET baseDrop == getResourceDrop(node.type)
    IN  IF baseDrop # Null
        THEN [baseDrop EXCEPT !.amount = FloorTimes(baseDrop.amount, m)]
        ELSE baseDrop

\* the node after the health decrement and the depletion check of gatherResource
gatherNode(node, m) ==
    LET hit == [node EXCEPT !.health = node.health - damageDealt(m)]
    IN  IF hit.health <= 0 THEN depleteNode(hit) ELSE hit

RECURSIVE closestFrom(_, _, _, _, _)
\* the loop of getClosestNode from index k on, with the running closest/closestDist
closestFrom(nodes, k, position, closest, closestDist) ==
    IF k > Len(nodes) THEN closest
    ELSE IF ~nodes[k].canGather
         THEN closestFrom(nodes, k + 1, position, closest, closestDist)
         ELSE LET dist == distanceTo(position, nodes[k].position)
              IN  IF dist < closestDist
                  THEN closestFrom(nodes, k + 1, position, k, dist)
                  ELSE closestFrom(nodes, k + 1, position, closest, closestDist)

\* getClosestNode: the index of the node returned, 0 for null
getClosestNode(nodes, position, maxDistance) ==
    closestFrom(nodes, 1, position, 0, maxDistance)

(* The gather calls a node has taken since it was created or respawned:    *)
(* how many it accepted, and whether all were below 2x / all at least 2x.  *)
FreshRun == [calls |-> 0, allWeak |-> TRUE, allStrong |-> TRUE]

runAfter(run, m) ==
    [ calls |-> run.calls + 1,
      allWeak |-> run.allWeak /\ m.n < 2 * m.d,
      allStrong |-> run.allStrong /\ m.n >= 2 * m.d ]

CreateResourceNode(type, x) ==
    /\ Len(resourceNodes) < MaxNodes
    /\ resourceNodes' = Append(resourceNodes, newNode(type, x))
    /\ UNCHANGED <<timeouts, gatherReturn>>

\* mutant: gatherResource without the canGather guard
GatherResource_NoGuard(i, m) ==
    /\ i \in 1..Len(resourceNodes)
    /\ LET node == resourceNodes[i]
           after == gatherNode(node, m)
       IN  /\ resourceNodes' = [resourceNodes EXCEPT ![i] = after]
           /\ timeouts' = IF after.canGather
                          THEN timeouts
                          ELSE Append(timeouts, respawnTimeout(i, after))
           /\ gatherReturn' = [node |-> i, drop |-> gatherDrop(node, m)]

GatherResource(i, m) ==
    /\ i \in 1..Len(resourceNodes)
    /\ LET node == resourceNodes[i]
       IN  IF ~node.canGather
           THEN /\ gatherReturn' = [node |-> i, drop |-> Null]
                /\ UNCHANGED <<resourceNodes, timeouts>>
           ELSE LET after == gatherNode(node, m)
                IN  /\ resourceNodes' = [resourceNodes EXCEPT ![i] = after]
                    /\ timeouts' = IF after.canGather
                                   THEN timeouts
                                   ELSE Append(timeouts, respawnTimeout(i, after))
                    /\ gatherReturn' = [node |-> i, drop |-> gatherDrop(node, m)]

\* index of the first pending callback that is due, 0 if none
FirstDue ==
    IF \E k \in 1..Len(timeouts) : timeouts[k].left = 0
    THEN CHOOSE k \in 1..Len(timeouts) :
            /\ timeouts[k].left = 0
            /\ \A j \in 1..(k - 1) : timeouts[j].left # 0
    ELSE 0

RemoveAt(s, k) == SubSeq(s, 1, k - 1) \o SubSeq(s, k + 1, Len(s))

\* the event loop runs the respawn callback that is due
RespawnNode ==
    /\ FirstDue # 0
    /\ timeouts[FirstDue].fn = "respawnNode"
    /\ LET i == timeouts[FirstDue].node
       IN  resourceNodes' = [resourceNodes EXCEPT ![i] = respawnNode(@)]
    /\ timeouts' = RemoveAt(timeouts, FirstDue)
    /\ UNCHANGED gatherReturn

\* wall-clock time passes, up to the next due callback
Elapse(ms) ==
    /\ timeouts # <<>>
    /\ \A k \in 1..Len(timeouts) : ms <= timeouts[k].left
    /\ timeouts' = [k \in 1..Len(timeouts) |-> [timeouts[k] EXCEPT !.left = @ - ms]]
    /\ UNCHANGED <<resourceNodes, gatherReturn>>

----------------------------------------------------------------------------
(* The player's gathering, src/unnamed/part_001 (Player) *)

gatherRange == 5

\* showIndicator: the ring is made visible (its opacity is not modelled)
showIndicator(node) ==
    IF node.canGather THEN [node EXCEPT !.indicator = TRUE] ELSE node

hideIndicator(node) == [node EXCEPT !.indicator = FALSE]

(* Player.update as far as the resource system sees it: the player has moved *)
(* to x, updateResourceGathering looks up the nearest gatherable node, hides *)
(* the indicator of the previous one, shows the indicator of the new one,    *)
(* and, when gather is set (the key is down and attemptGather finds the      *)
(* gather cooldown elapsed), gathers from it with the tool's multiplier m.   *)
PlayerUpdate(x, gather, m) ==
    LET previousResource == nearestResource
        nearest == getClosestNode(resourceNodes, x, gatherRange)
        hidden == IF previousResource # 0 /\ previousResource # nearest
                  THEN [resourceNodes EXCEPT ![previousResource] = hideIndicator(@)]
                  ELSE resourceNodes
        shown == IF nearest # 0
                 THEN [hidden EXCEPT ![nearest] = showIndicator(@)]
                 ELSE hidden
    IN  /\ playerPosition' = x
        /\ nearestResource' = nearest
        /\ IF nearest # 0 /\ gather /\ shown[nearest].canGather
           THEN LET after == gatherNode(shown[nearest], m)
                IN  /\ resourceNodes' = [shown EXCEPT ![nearest] = after]
                    /\ timeouts' = IF after.canGather
                                   THEN timeouts
                                   ELSE Append(timeouts, respawnTimeout(nearest, after))
                    /\ gatherReturn' = [node |-> nearest, drop |-> gatherDrop(shown[nearest], m)]
           ELSE /\ resourceNodes' = shown
                /\ UNCHANGED <<timeouts, gatherReturn>>

----------------------------------------------------------------------------
(* Numbers of the creature system                                          *)
(*  - Positions and velocities are whole world units (units per second); a *)
(*    movement step and the damping are truncated to whole units.          *)
(*  - attackRange is stored in tenths of a unit (1.8 is 18).               *)
(*  - A timestamp is stored relative to the present instant Date.now():    *)
(*    0 is now, -t is t ms ago.  Timestamps older than Horizon are kept at *)
(*    -Horizon; Horizon exceeds every attackCooldown, so every comparison  *)
(*    the code makes comes out as it does on the real clock.               *)
(*  - NaN stands for the JavaScript NaN and for an undefined number, which *)
(*    turns into NaN in arithmetic and fails every comparison.             *)

NaN == -1000000

now == 0

IsNaN(a) == a = NaN

Plus(a, b) == IF IsNaN(a) \/ IsNaN(b) THEN NaN ELSE a + b

Minus(a, b) == IF IsNaN(a) \/ IsNaN(b) THEN NaN ELSE a - b

Times(a, b) == IF IsNaN(a) \/ IsNaN(b) THEN NaN ELSE a * b

\* a / b for b > 0, truncated towards zero
Truncate(a, b) ==
    IF IsNaN(a) THEN NaN
    ELSE IF a >= 0 THEN a \div b ELSE -((-a) \div b)

Less(a, b) == ~IsNaN(a) /\ ~IsNaN(b) /\ a < b

Greater(a, b) == ~IsNaN(a) /\ ~IsNaN(b) /\ a > b

\* Vector3.normalize in the one-dimensional world: the sign, 0 for length 0
normalize(d) ==
    IF IsNaN(d) THEN NaN
    ELSE IF d > 0 THEN 1 ELSE IF d < 0 THEN -1 ELSE 0

----------------------------------------------------------------------------
(* CreatureSystem, src/creatures.js *)

\* the value of maxCreatures in the model (15 in the source)
maxCreatures == 2

spawnRadius == 80

\* the most creatures spawnCreature builds in a run
MaxSpawned == 2

\* creatures stay within MaxX of the origin
MaxX == 60

Horizon == 3000

initializeSpecies ==
    << [ id |-> "rabbit", health |-> 10, maxHealth |-> 10, speed |-> 8, damage |-> 0,
         attackRange |-> 0, detectionRange |-> 15, behavior |-> "passive",
         aggroOnHit |-> FALSE, wanderSpeed |-> 3, fleeSpeed |-> 10,
         attackCooldown |-> NaN,
         dropItems |-> << [type |-> "meat", amount |-> 1, chance |-> 100] >>,
         spawnWeight |-> 30 ],
       [ id |-> "deer", health |-> 25, maxHealth |-> 25, speed |-> 10, damage |-> 0,
         attackRange |-> 0, detectionRange |-> 20, behavior |-> "passive",
         aggroOnHit |-> FALSE, wanderSpeed |-> 4, fleeSpeed |-> 12,
         attackCooldown |-> NaN,
         dropItems |-> << [type |-> "meat", amount |-> 3, chance |-> 100],
                          [type |-> "hide", amount |-> 1, chance |-> 80] >>,
         spawnWeight |-> 20 ],
       [ id |-> "wolf", health |-> 40, maxHealth |-> 40, speed |-> 12, damage |-> 10,
         attackRange |-> 20, detectionRange |-> 25, behavior |-> "aggressive",
         aggroOnHit |-> TRUE, wanderSpeed |-> 5, fleeSpeed |-> NaN,
         attackCooldown |-> 1500,
         dropItems |-> << [type |-> "meat", amount |-> 2, chance |-> 100],
                          [type |-> "fang", amount |-> 1, chance |-> 50] >>,
         spawnWeight |-> 15 ],
       [ id |-> "boar", health |-> 50, maxHealth |-> 50, speed |-> 9, damage |-> 8,
         attackRange |-> 18, detectionRange |-> 15, behavior |-> "neutral",
         aggroOnHit |-> TRUE, wanderSpeed |-> 3, fleeSpeed |-> NaN,
         attackCooldown |-> 2000,
         dropItems |-> << [type |-> "meat", amount |-> 4, chance |-> 100],
                          [type |-> "hide", amount |-> 2, chance |-> 70] >>,
         spawnWeight |-> 18 ],
       [ id |-> "bear", health |-> 100, maxHealth |-> 100, speed |-> 8, damage |-> 20,
         attackRange |-> 25, detectionRange |-> 30, behavior |-> "aggressive",
         aggroOnHit |-> TRUE, wanderSpeed |-> 4, fleeSpeed |-> NaN,
         attackCooldown |-> 2500,
         dropItems |-> << [type |-> "meat", amount |-> 8, chance |-> 100],
                          [type |-> "hide", amount |-> 3, chance |-> 100],
                          [type |-> "fang", amount |-> 2, chance |-> 80] >>,
         spawnWeight |-> 8 ] >>

\* creature.speciesData
speciesData(creature) ==
    initializeSpecies[CHOOSE k \in 1..Len(initializeSpecies) :
                          initializeSpecies[k].id = creature.species]

\* the spawn weights of the registry, in its order
spawnWeights == [k \in 1..Len(initializeSpecies) |-> initializeSpecies[k].spawnWeight]

RECURSIVE totalWeight(_, _)
\* the reduce of spawnRandomCreature over the first k species
totalWeight(weights, k) ==
    IF k = 0 THEN 0 ELSE totalWeight(weights, k - 1) + weights[k]

RECURSIVE selectAmong_NoCarry(_, _, _)
\* mutant: the draw is compared with each weight but not reduced by it
selectAmong_NoCarry(weights, k, random) ==
    IF k > Len(weights) THEN 1
    ELSE IF random - weights[k] <= 0 THEN k
         ELSE selectAmong_NoCarry(weights, k + 1, random)

RECURSIVE selectAmong(_, _, _)
\* the selection loop of spawnRandomCreature over a registry with the given
\* spawn weights, from species k on: the index of the species selected (the
\* first species when the loop selects none)
selectAmong(weights, k, random) ==
    IF k > Len(weights) THEN 1
    ELSE IF random - weights[k] <= 0 THEN k
         ELSE selectAmong(weights, k + 1, random - weights[k])

\* the selection loop of spawnRandomCreature over the shipped registry
selectFrom(k, random) == initializeSpecies[selectAmong(spawnWeights, k, random)]

\* the species spawnRandomCreature selects when Math.random() * totalWeight
\* (a number from 0 up to, not including, 91) is random
selectedSpecies(random) == selectFrom(1, random)

maxAttempts == 20

\* the land band of findSpawnPosition
validHeight(height) == height > -1 /\ height < 15

\* no attempt of findSpawnPosition landed on valid terrain
NoDraw == [ok |-> FALSE, side |-> 1, random |-> 0, height |-> 0, attempts |-> maxAttempts]

RECURSIVE attemptFrom_OneMore(_, _)
\* mutant: the loop runs while attempts <= 20
attemptFrom_OneMore(candidates, attempts) ==
    IF attempts > maxAttempts THEN NoDraw
    ELSE LET candidate == candidates[attempts + 1]
         IN  IF validHeight(candidate.height)
             THEN [ ok |-> TRUE, side |-> candidate.side, random |-> candidate.random,
                    height |-> candidate.height, attempts |-> attempts + 1 ]
             ELSE attemptFrom_OneMore(candidates, attempts + 1)

RECURSIVE attemptFrom(_, _)
(* The loop of findSpawnPosition from the given attempt on (attempts counts   *)
(* from 0): candidates[k] is the k-th point the random numbers give, as its   *)
(* side (cos of the angle, -1 or 1) and its Math.random() in percent, with    *)
(* the terrain height there.  The result is the draw of the first attempt     *)
(* that lands on valid terrain, with the number of points sampled.            *)
attemptFrom(candidates, attempts) ==
    IF attempts >= maxAttempts THEN NoDraw
    ELSE LET candidate == candidates[attempts + 1]
         IN  IF validHeight(candidate.height)
             THEN [ ok |-> TRUE, side |-> candidate.side, random |-> candidate.random,
                    height |-> candidate.height, attempts |-> attempts + 1 ]
             ELSE attemptFrom(candidates, attempts + 1)

(* findSpawnPosition: draw is the first of the 20 attempts that lands on     *)
(* valid terrain, with its side (cos of the angle, -1 or 1) and its          *)
(* Math.random() in percent, or no attempt does (ok = FALSE) and the result  *)
(* is null.                                                                  *)
NoPosition == [ok |-> FALSE, x |-> 0]

findSpawnPosition(draw) ==
    IF draw.ok
    THEN [ok |-> TRUE, x |-> draw.side * (20 + (draw.random * spawnRadius) \div 100)]
    ELSE NoPosition

NoTarget == [set |-> FALSE, x |-> 0]

\* the creature object built by spawnCreature
newCreature(id, species, x) ==
    [ id |-> id,
      species |-> species.id,
      position |-> x,
      velocity |-> 0,
      health |-> species.health,
      maxHealth |-> species.maxHealth,
      isDead |-> FALSE,
      state |-> "idle",
      target |-> "null",
      lastAttackTime |-> -Horizon,     \* 0 on the real clock
      stateTimer |-> 0,
      wanderTarget |-> NoTarget,
      scale |-> 1000000 ]              \* mesh.scale.x in millionths

\* the creatures after spawnRandomCreature with the given draws
spawnRandomCreature(list, id, random, draw) ==
    LET spawnPos == findSpawnPosition(draw)
    IN  IF spawnPos.ok
        THEN Append(list, newCreature(id, selectedSpecies(random), spawnPos.x))
        ELSE list

RECURSIVE spawnInitialCreatures(_, _, _)
\* the lists the first n iterations of spawnInitialCreatures can build
spawnInitialCreatures(n, randoms, draws) ==
    IF n = 0 THEN { <<>> }
    ELSE { spawnRandomCreature(list, Len(list) + 1, random, draw) :
              list \in spawnInitialCreatures(n - 1, randoms, draws),
              random \in randoms, draw \in draws }

RECURSIVE dropFrom_NoInventoryTest(_, _, _)
\* mutant: dropLoot calls createGroundItem without looking for the inventory
dropFrom_NoInventoryTest(creature, k, rolls) ==
    LET dropItems == speciesData(creature).dropItems
    IN  IF k > Len(dropItems) THEN <<>>
        ELSE IF rolls[k] < dropItems[k].chance
             THEN << [type |-> dropItems[k].type, amount |-> dropItems[k].amount,
                      x |-> creature.position] >>
                  \o dropFrom_NoInventoryTest(creature, k + 1, rolls)
             ELSE dropFrom_NoInventoryTest(creature, k + 1, rolls)

RECURSIVE dropFrom_OneRoll(_, _, _)
\* mutant: one Math.random() is drawn for the whole drop table
dropFrom_OneRoll(creature, k, rolls) ==
    LET dropItems == speciesData(creature).dropItems
    IN  IF k > Len(dropItems) THEN <<>>
        ELSE IF rolls[1] < dropItems[k].chance /\ inventory
             THEN << [type |-> dropItems[k].type, amount |-> dropItems[k].amount,
                      x |-> creature.position] >>
                  \o dropFrom_OneRoll(creature, k + 1, rolls)
             ELSE dropFrom_OneRoll(creature, k + 1, rolls)

RECURSIVE dropFrom(_, _, _)
\* the loop of dropLoot from entry k on: the createGroundItem calls it makes,
\* rolls[k] being Math.random() in percent for entry k; an entry whose roll
\* succeeds is dropped when window.game.inventory exists
dropFrom(creature, k, rolls) ==
    LET dropItems == speciesData(creature).dropItems
    IN  IF k > Len(dropItems) THEN <<>>
        ELSE IF rolls[k] < dropItems[k].chance /\ inventory
             THEN << [type |-> dropItems[k].type, amount |-> dropItems[k].amount,
                      x |-> creature.position] >> \o dropFrom(creature, k + 1, rolls)
             ELSE dropFrom(creature, k + 1, rolls)

dropLoot(creature, rolls) == dropFrom(creature, 1, rolls)

\* one call of the fadeOut closure: the mesh shrinks
fadeOut(creature) == [creature EXCEPT !.scale = (@ * 95) \div 100]

\* whether fadeOut asks for another animation frame
fading(creature) == creature.scale > 100000

\* mutant: killCreature leaves the health where the last hit put it
killCreature_KeepHealth(creature, rolls) ==
    [ creature |-> fadeOut([creature EXCEPT !.isDead = TRUE]),
      dropped |-> dropLoot(creature, rolls) ]

\* killCreature: the creature after it (with the first fadeOut call it makes)
\* and the createGroundItem calls of dropLoot
killCreature(creature, rolls) ==
    [ creature |-> fadeOut([creature EXCEPT !.isDead = TRUE, !.health = 0]),
      dropped |-> dropLoot(creature, rolls) ]

\* mutant: a neutral creature chases its attacker whatever its aggroOnHit
hitCreature_NeutralChases(creature, damage, attacker) ==
    LET species == speciesData(creature)
        hit == [creature EXCEPT !.health = @ - damage]
    IN  IF species.behavior = "passive"
        THEN [hit EXCEPT !.state = "flee", !.stateTimer = 5000]
        ELSE IF species.behavior = "neutral" \/ species.behavior = "aggressive"
             THEN [hit EXCEPT !.state = "chase",
                              !.target = IF attacker # "null" THEN attacker
                                         ELSE "player.position"]
             ELSE hit

\* mutant: a lethal hit goes straight to the death check, without the reaction
hitCreature_ReactIfAlive(creature, damage, attacker) ==
    LET species == speciesData(creature)
        hit == [creature EXCEPT !.health = @ - damage]
    IN  IF hit.health <= 0 THEN hit
        ELSE IF \/ species.behavior = "passive"
                \/ (species.behavior = "neutral" /\ species.aggroOnHit)
             THEN [hit EXCEPT !.state = "flee", !.stateTimer = 5000]
             ELSE [hit EXCEPT !.state = "chase",
                              !.target = IF attacker # "null" THEN attacker
                                         ELSE "player.position"]

\* the creature after the hit and the reaction of damageCreature
hitCreature(creature, damage, attacker) ==
    LET species == speciesData(creature)
        hit == [creature EXCEPT !.health = @ - damage]
    IN  IF \/ species.behavior = "passive"
           \/ (species.behavior = "neutral" /\ species.aggroOnHit)
        THEN [hit EXCEPT !.state = "flee", !.stateTimer = 5000]
        ELSE IF species.behavior = "neutral" \/ species.behavior = "aggressive"
             THEN [hit EXCEPT !.state = "chase",
                              !.target = IF attacker # "null" THEN attacker
                                         ELSE "player.position"]
             ELSE hit

\* mutant: damageCreature without the isDead guard
damageCreature_NoGuard(creature, damage, attacker, rolls) ==
    LET hit == hitCreature(creature, damage, attacker)
    IN  IF hit.health <= 0 THEN killCreature(hit, rolls)
        ELSE [creature |-> hit, dropped |-> <<>>]

\* damageCreature: the creature after it and the createGroundItem calls made
damageCreature(creature, damage, attacker, rolls) ==
    IF creature.isDead THEN [creature |-> creature, dropped |-> <<>>]
    ELSE LET hit == hitCreature(creature, damage, attacker)
         IN  IF hit.health <= 0 THEN killCreature(hit, rolls)
             ELSE [creature |-> hit, dropped |-> <<>>]

updateIdle(creature, distanceToPlayer, draw) ==
    LET species == speciesData(creature)
    IN  IF species.behavior = "aggressive" /\ Less(distanceToPlayer, species.detectionRange)
        THEN [creature EXCEPT !.state = "chase", !.target = "player.position"]
        ELSE IF draw.wander
             THEN [creature EXCEPT !.state = "wander", !.stateTimer = draw.timer]
             ELSE creature

updateWander(creature, distanceToPlayer, draw) ==
    LET species == speciesData(creature)
        wanderTarget ==
            IF ~creature.wanderTarget.set \/ draw.retarget
            THEN [set |-> TRUE, x |-> Plus(creature.position, draw.offset)]
            ELSE creature.wanderTarget
        direction == normalize(Minus(wanderTarget.x, creature.position))
    IN  IF species.behavior = "aggressive" /\ Less(distanceToPlayer, species.detectionRange)
        THEN [creature EXCEPT !.state = "chase", !.target = "player.position"]
        ELSE [creature EXCEPT !.wanderTarget = wanderTarget,
                              !.velocity = Times(direction, species.wanderSpeed)]

updateChase(creature, distanceToPlayer, player) ==
    LET species == speciesData(creature)
        direction == normalize(Minus(player, creature.position))
    IN  IF Less(Times(distanceToPlayer, 10), species.attackRange)
        THEN [creature EXCEPT !.state = "attack"]
        ELSE IF Greater(Times(distanceToPlayer, 2), Times(species.detectionRange, 3))
             THEN [creature EXCEPT !.state = "idle", !.target = "null"]
             ELSE [creature EXCEPT !.velocity = Times(direction, species.speed)]

\* mutant: the attack fires as soon as the cooldown has elapsed
attackReady_AtCooldown(creature) ==
    LET attackCooldown == speciesData(creature).attackCooldown
    IN  ~IsNaN(attackCooldown) /\ now - creature.lastAttackTime >= attackCooldown

\* the cooldown test of updateAttack
attackReady(creature) ==
    Greater(Minus(now, creature.lastAttackTime), speciesData(creature).attackCooldown)

\* updateAttack: the creature after it, and whether it called performAttack
updateAttack(creature, distanceToPlayer) ==
    LET species == speciesData(creature)
        stopped == [creature EXCEPT !.velocity = 0]
    IN  IF Greater(Times(distanceToPlayer, 100), Times(species.attackRange, 12))
        THEN [creature |-> [creature EXCEPT !.state = "chase"], attacked |-> FALSE]
        ELSE IF attackReady(creature)
             THEN [creature |-> [stopped EXCEPT !.lastAttackTime = now], attacked |-> TRUE]
             ELSE [creature |-> stopped, attacked |-> FALSE]

updateFlee(creature, player) ==
    LET species == speciesData(creature)
        direction == normalize(Minus(creature.position, player))
    IN  [creature EXCEPT !.velocity = Times(direction, species.fleeSpeed)]

applyMovement(creature, deltaTime) ==
    [creature EXCEPT
        !.position = Plus(@, Truncate(Times(creature.velocity, deltaTime), 1000)),
        !.velocity = Truncate(Times(@, 9), 10)]

\* mutant: the state timer runs out without touching the state
stepTimer_KeepState(creature, deltaTime) ==
    IF creature.stateTimer > 0
    THEN [creature EXCEPT !.stateTimer = @ - deltaTime]
    ELSE creature

\* the state-timer step that opens updateCreature
stepTimer(creature, deltaTime) ==
    IF creature.stateTimer > 0
    THEN LET left == creature.stateTimer - deltaTime
         IN  [creature EXCEPT !.stateTimer = left,
                              !.state = IF left <= 0 THEN "idle" ELSE @]
    ELSE creature

\* updateCreature: the creature after it, and whether it called performAttack
updateCreature(creature, deltaTime, player, draw) ==
    LET timed == stepTimer(creature, deltaTime)
        distanceToPlayer == distanceTo(timed.position, player)
        handled ==
            CASE timed.state = "idle" ->
                   [creature |-> updateIdle(timed, distanceToPlayer, draw), attacked |-> FALSE]
              [] timed.state = "wander" ->
                   [creature |-> updateWander(timed, distanceToPlayer, draw), attacked |-> FALSE]
              [] timed.state = "chase" ->
                   [creature |-> updateChase(timed, distanceToPlayer, player), attacked |-> FALSE]
              [] timed.state = "attack" -> updateAttack(timed, distanceToPlayer)
              [] timed.state = "flee" ->
                   [creature |-> updateFlee(timed, player), attacked |-> FALSE]
    IN  [handled EXCEPT !.creature = applyMovement(@, deltaTime)]

RECURSIVE closestCreatureFrom_LastOnTie(_, _, _, _, _)
\* mutant: a creature as near as the closest so far replaces it
closestCreatureFrom_LastOnTie(list, k, position, closest, closestDist) ==
    IF k > Len(list) THEN closest
    ELSE IF list[k].isDead
         THEN closestCreatureFrom_LastOnTie(list, k + 1, position, closest, closestDist)
         ELSE LET dist == distanceTo(position, list[k].position)
              IN  IF ~Greater(dist, closestDist)
                  THEN closestCreatureFrom_LastOnTie(list, k + 1, position, k, dist)
                  ELSE closestCreatureFrom_LastOnTie(list, k + 1, position, closest,
                                                     closestDist)

RECURSIVE closestCreatureFrom(_, _, _, _, _)
\* the loop of getClosestCreature from index k on
closestCreatureFrom(list, k, position, closest, closestDist) ==
    IF k > Len(list) THEN closest
    ELSE IF list[k].isDead
         THEN closestCreatureFrom(list, k + 1, position, closest, closestDist)
         ELSE LET dist == distanceTo(position, list[k].position)
              IN  IF Less(dist, closestDist)
                  THEN closestCreatureFrom(list, k + 1, position, k, dist)
                  ELSE closestCreatureFrom(list, k + 1, position, closest, closestDist)

\* getClosestCreature: the index of the creature returned, 0 for null
getClosestCreature(list, position, maxDistance) ==
    closestCreatureFrom(list, 1, position, 0, maxDistance)

Max(a, b) == IF a >= b THEN a ELSE b

\* the creatures after ms of wall-clock time: their timestamps are ms older
aged(list, ms) ==
    [i \in 1..Len(list) |->
        [list[i] EXCEPT !.lastAttackTime = Max(-Horizon, @ - ms)]]

\* the callback killCreature's fadeOut registers with setTimeout
spawnTimeout == [fn |-> "spawnRandomCreature", node |-> 0, left |-> 10000]

RECURSIVE performed(_, _)
\* the performAttack calls among the results of one update, from index k on
performed(results, k) ==
    IF k > Len(results) THEN <<>>
    ELSE IF results[k].attacked
         THEN << [id |-> results[k].creature.id,
                  damage |-> speciesData(results[k].creature).damage] >>
              \o performed(results, k + 1)
         ELSE performed(results, k + 1)

\* mutant: update without the isDead test
update_IncludeDead(list, deltaTime, player, draws) ==
    [i \in 1..Len(list) |-> updateCreature(list[i], deltaTime, player, draws[i])]

\* mutant: update takes the dead out of the list as it meets them
update_DropDead(list, deltaTime, player, draws) ==
    LET live == SelectSeq(list, LAMBDA creature : ~creature.isDead)
    IN  [i \in 1..Len(live) |-> updateCreature(live[i], deltaTime, player, draws[i])]

\* update(deltaTime) over a list, draws[i] being the random numbers creature i uses
update(list, deltaTime, player, draws) ==
    [i \in 1..Len(list) |->
        IF list[i].isDead
        THEN [creature |-> list[i], attacked |-> FALSE]
        ELSE updateCreature(list[i], deltaTime, player, draws[i])]

\* a frame: deltaTime of wall-clock time passes and update(deltaTime) runs
Update(deltaTime, draws) ==
    /\ \A k \in 1..Len(timeouts) : deltaTime <= timeouts[k].left
    /\ LET results == update(aged(creatures, deltaTime), deltaTime, playerPosition, draws)
       IN  /\ \A i \in 1..Len(results) :
                 \/ IsNaN(results[i].creature.position)
                 \/ Abs(results[i].creature.position) <= MaxX
           /\ creatures' = [i \in 1..Len(results) |-> results[i].creature]
           /\ attacks' = performed(results, 1)
    /\ timeouts' = [k \in 1..Len(timeouts) |-> [timeouts[k] EXCEPT !.left = @ - deltaTime]]
    /\ UNCHANGED <<playerPosition, groundItems, spawned, inventory>>

\* whether a creature's fadeOut has removed it from the list
removed(creature) == creature.isDead /\ ~fading(creature)

(* damageCreature as the player's attack calls it.  killCreature makes the   *)
(* first fadeOut call itself: were the mesh small enough by then, that call  *)
(* would remove the creature and schedule the replacement on the spot.       *)
DamageCreature(i, damage, attacker, rolls) ==
    /\ i \in 1..Len(creatures)
    /\ LET after == damageCreature(creatures[i], damage, attacker, rolls)
       IN  /\ creatures' = IF removed(after.creature)
                           THEN RemoveAt(creatures, i)
                           ELSE [creatures EXCEPT ![i] = after.creature]
           /\ timeouts' = IF removed(after.creature)
                          THEN Append(timeouts, spawnTimeout)
                          ELSE timeouts
           /\ groundItems' = groundItems \o after.dropped
    /\ UNCHANGED <<playerPosition, spawned, attacks, inventory>>

\* the player's attackRange
attackRange == 3

(* Player.attemptAttack with the attack cooldown elapsed: the closest live   *)
(* creature within attackRange, if there is one, takes the damage.           *)
AttemptAttack(damage, rolls) ==
    LET target == getClosestCreature(creatures, playerPosition, attackRange)
    IN  /\ target # 0
        /\ DamageCreature(target, damage, "player", rolls)

\* mutant: two replacements are scheduled for each creature removed
FadeOut_TwoSpawns ==
    /\ \E i \in 1..Len(creatures) : creatures[i].isDead
    /\ LET faded == [i \in 1..Len(creatures) |->
                        IF creatures[i].isDead THEN fadeOut(creatures[i]) ELSE creatures[i]]
           gone == { i \in 1..Len(faded) : removed(faded[i]) }
       IN  /\ creatures' = SelectSeq(faded, LAMBDA creature : ~removed(creature))
           /\ timeouts' = timeouts \o [k \in 1..(2 * Cardinality(gone)) |-> spawnTimeout]
    /\ UNCHANGED <<playerPosition, groundItems, spawned, attacks, inventory>>

(* An animation frame runs the fadeOut closure of every dying creature: the *)
(* mesh shrinks, and once it is small enough the creature leaves the list   *)
(* and a replacement spawn is scheduled.                                    *)
FadeOut ==
    /\ \E i \in 1..Len(creatures) : creatures[i].isDead
    /\ LET faded == [i \in 1..Len(creatures) |->
                        IF creatures[i].isDead THEN fadeOut(creatures[i]) ELSE creatures[i]]
           gone == { i \in 1..Len(faded) : removed(faded[i]) }
       IN  /\ creatures' = SelectSeq(faded, LAMBDA creature : ~removed(creature))
           /\ timeouts' = timeouts \o [k \in 1..Cardinality(gone) |-> spawnTimeout]
    /\ UNCHANGED <<playerPosition, groundItems, spawned, attacks, inventory>>

\* the event loop runs the replacement-spawn callback that is due
SpawnRandomCreature(random, draw) ==
    /\ FirstDue # 0
    /\ timeouts[FirstDue].fn = "spawnRandomCreature"
    /\ spawned < MaxSpawned
    /\ LET after == spawnRandomCreature(creatures, spawned + 1, random, draw)
       IN  /\ creatures' = after
           /\ spawned' = IF Len(after) > Len(creatures) THEN spawned + 1 ELSE spawned
    /\ timeouts' = RemoveAt(timeouts, FirstDue)
    /\ UNCHANGED <<playerPosition, groundItems, attacks, inventory>>

\* the player walks, or is put somewhere else on respawn
PlayerMoves(x) ==
    /\ x # playerPosition
    /\ playerPosition' = x
    /\ UNCHANGED <<creatures, groundItems, spawned, attacks, timeouts, inventory>>

\* wall-clock time passes without a frame
Wait(ms) ==
    /\ Elapse(ms)
    /\ creatures' = aged(creatures, ms)
    /\ UNCHANGED <<playerPosition, groundItems, spawned, attacks, inventory>>

\* no spawnRandomCreature call recorded
NoSpawnCall == [called |-> FALSE]

\* the creature variables while the resource system runs alone
NoCreatures ==
    /\ creatures = <<>>
    /\ playerPosition = 0
    /\ groundItems = <<>>
    /\ spawned = 0
    /\ damageCall = [id |-> 0, dead |-> FALSE]
    /\ attacks = <<>>
    /\ attackClock = <<>>
    /\ frames = 0
    /\ spawnCall = NoSpawnCall
    /\ inventory = TRUE

----------------------------------------------------------------------------
(* The resource system on its own *)

InitNodes ==
    /\ resourceNodes = <<>>
    /\ timeouts = <<>>
    /\ gatherReturn = [node |-> 0, drop |-> Undefined]
    /\ gatherRun = <<>>
    /\ nearestResource = 0
    /\ NoCreatures

RespawnDue == RespawnNode /\ UNCHANGED <<gatherRun, nearestResource, creatureVars>>

TimePasses == \E ms \in Elapses : Elapse(ms) /\ UNCHANGED <<gatherRun, nearestResource, creatureVars>>

NextNodes ==
    \/ \E type \in NodeTypes, x \in NodeXs : CreateResourceNode(type, x) /\ UNCHANGED <<gatherRun, nearestResource, creatureVars>>
    \/ \E i \in 1..MaxNodes, m \in Multipliers : GatherResource(i, m) /\ UNCHANGED <<gatherRun, nearestResource, creatureVars>>
    \/ RespawnDue
    \/ TimePasses

SpecNodes == InitNodes /\ [][NextNodes]_vars

----------------------------------------------------------------------------
(* The respawn cycle under the event loop's scheduling: a due callback is   *)
(* run, and time passes.  Two node types and the multipliers 1 and 2.       *)

RespawnTypes == {"plant", "bush"}

RespawnMultipliers == { [n |-> 1, d |-> 1], [n |-> 2, d |-> 1] }

NextRespawn ==
    \/ \E type \in RespawnTypes, x \in NodeXs : CreateResourceNode(type, x) /\ UNCHANGED <<gatherRun, nearestResource, creatureVars>>
    \/ \E i \in 1..MaxNodes, m \in RespawnMultipliers : GatherResource(i, m) /\ UNCHANGED <<gatherRun, nearestResource, creatureVars>>
    \/ RespawnDue
    \/ TimePasses

FairSpecRespawn ==
    InitNodes /\ [][NextRespawn]_vars /\ WF_vars(RespawnDue) /\ WF_vars(TimePasses)

\* the same steps, whatever the scheduling
SpecRespawn == InitNodes /\ [][NextRespawn]_vars

----------------------------------------------------------------------------
(* Gathering alone: nodes are created and gathered, no time passes *)

NextGather ==
    \/ \E type \in NodeTypes, x \in NodeXs : CreateResourceNode(type, x) /\ UNCHANGED <<gatherRun, nearestResource, creatureVars>>
    \/ \E i \in 1..MaxNodes, m \in Multipliers : GatherResource(i, m) /\ UNCHANGED <<gatherRun, nearestResource, creatureVars>>

SpecGather == InitNodes /\ [][NextGather]_vars

----------------------------------------------------------------------------
(* Depletion runs: nodes of one type, with the gather calls of each counted *)

RunTypes == {"tree"}

NextRuns ==
    \/ \E type \in RunTypes, x \in NodeXs :
          /\ CreateResourceNode(type, x)
          /\ gatherRun' = Append(gatherRun, FreshRun)
          /\ UNCHANGED <<nearestResource, creatureVars>>
    \/ \E i \in 1..MaxNodes, m \in Multipliers :
          /\ GatherResource(i, m)
          /\ gatherRun' = IF resourceNodes[i].canGather
                          THEN [gatherRun EXCEPT ![i] = runAfter(@, m)]
                          ELSE gatherRun
          /\ UNCHANGED <<nearestResource, creatureVars>>
    \/ /\ RespawnNode
       /\ gatherRun' = [gatherRun EXCEPT ![timeouts[FirstDue].node] = FreshRun]
       /\ UNCHANGED <<nearestResource, creatureVars>>
    \/ \E ms \in Elapses : Elapse(ms) /\ UNCHANGED <<gatherRun, nearestResource, creatureVars>>

SpecRuns == InitNodes /\ [][NextRuns]_vars

----------------------------------------------------------------------------
(* The player among the nodes: the world is generated with its nodes, the  *)
(* player walks and gathers, depleted nodes respawn.                       *)

IndicatorTypes == {"plant"}

\* two nodes can be within gatherRange of one place; the third is far off
IndicatorXs == {0, 3, 20}

\* next to both near nodes, nearer to the second, and away from every node
WalkXs == {0, 4, 30}

RECURSIVE createdNodes(_, _, _)
\* the node lists n createResourceNode calls of the world generation can build
createdNodes(n, types, xs) ==
    IF n = 0 THEN { <<>> }
    ELSE { Append(nodes, newNode(type, x)) :
              nodes \in createdNodes(n - 1, types, xs), type \in types, x \in xs }

InitIndicator ==
    /\ resourceNodes \in createdNodes(MaxNodes, IndicatorTypes, IndicatorXs)
    /\ timeouts = <<>>
    /\ gatherReturn = [node |-> 0, drop |-> Undefined]
    /\ gatherRun = <<>>
    /\ nearestResource = 0
    /\ NoCreatures

indicatorRest ==
    <<gatherRun, creatures, groundItems, spawned, damageCall, attacks, attackClock, frames,
      spawnCall, inventory>>

PlayerFrame ==
    \E x \in WalkXs, gather \in BOOLEAN, m \in RespawnMultipliers :
        PlayerUpdate(x, gather, m) /\ UNCHANGED indicatorRest

NextIndicator ==
    \/ PlayerFrame
    \/ RespawnDue
    \/ TimePasses

SpecIndicator == InitIndicator /\ [][NextIndicator]_vars

----------------------------------------------------------------------------
(* The weighted selection of spawnRandomCreature on its own, over the       *)
(* shipped registry and over registries with a species of weight 0.  A draw *)
(* Math.random() * totalWeight is given in halves of a unit, so that 0, the *)
(* whole numbers and the values between them all occur; the loop then runs  *)
(* on the weights in halves too.                                            *)

Registries == { spawnWeights, <<0, 3, 2>>, <<3, 0, 2>>, <<3, 2, 0>> }

\* the weights in halves of a unit
inHalves(weights) == [k \in 1..Len(weights) |-> 2 * weights[k]]

\* the draws from 0 up to, not including, the total weight, in halves
DrawsOf(weights) == 0..(2 * totalWeight(weights, Len(weights)) - 1)

SelectSpecies(weights, random) ==
    /\ spawnCall' = [ called |-> TRUE, weights |-> weights, random |-> random,
                      selected |-> selectAmong(inHalves(weights), 1, random) ]
    /\ UNCHANGED <<nodeVars, creatures, playerPosition, groundItems, spawned, damageCall,
                   attacks, attackClock, frames, inventory>>

InitSelect == InitNodes

NextSelect ==
    \E weights \in Registries : \E random \in DrawsOf(weights) : SelectSpecies(weights, random)

SpecSelect == InitSelect /\ [][NextSelect]_vars

----------------------------------------------------------------------------
(* The hunt: aggressive creatures, a player that moves, frames of 0.5 s and *)
(* 1 s.  Each performAttack call is put on the wall clock.                  *)

\* what a step of the creature system leaves alone
nodeRest == <<resourceNodes, gatherReturn, gatherRun, nearestResource, spawnCall>>

\* the most frames of a run
MaxFrames == 5

\* Math.random() * totalWeight selecting the wolf and the bear
HuntRandoms == {60, 90}

HuntSpawns == { [ok |-> TRUE, side |-> 1, random |-> 0] }

PlayerXs == {-20, 0, 19}

\* the deltaTime of update, in ms: frames of 0.5 s and 1 s (the frame loop of
\* main.js passes at most 0.1 s; update itself takes any)
DeltaTimes == {500, 1000}

\* 3000 + Math.random() * 5000
WanderTimers == {3000}

\* cos(angle) * (5 + Math.random() * 10)
WanderOffsets == {-5, 10}

(* The random numbers one updateCreature call may use: whether Math.random() *)
(* is below 0.01 (wander) and the timer then set, whether it is below 0.02    *)
(* (retarget) and the offset of the wander target then picked.                *)
HuntDraws ==
    [wander : BOOLEAN, timer : WanderTimers, retarget : BOOLEAN, offset : WanderOffsets]

\* no performAttack call yet
NoCalls == [calls |-> 0, since |-> 0, gap |-> 0, inUpdate |-> 0]

\* how many of the calls in list are by creature id
CallsBy(list, id) == Cardinality({ k \in 1..Len(list) : list[k].id = id })

(* The clock of one creature after ms passed and it made n calls: the calls *)
(* counted up to 2, the time since the last call and the gap between the    *)
(* last two calls, both up to Horizon.                                      *)
clockAfter(clock, ms, n) ==
    LET since == Min(Horizon, clock.since + ms)
    IN  IF n = 0 THEN [clock EXCEPT !.since = since, !.inUpdate = 0]
        ELSE [ calls |-> Min(2, clock.calls + n),
               since |-> 0,
               gap |-> IF n > 1 THEN 0 ELSE IF clock.calls > 0 THEN since ELSE 0,
               inUpdate |-> n ]

InitHunt ==
    /\ resourceNodes = <<>>
    /\ timeouts = <<>>
    /\ gatherReturn = [node |-> 0, drop |-> Undefined]
    /\ gatherRun = <<>>
    /\ nearestResource = 0
    /\ creatures \in { spawnRandomCreature(<<>>, 1, random, draw) :
                          random \in HuntRandoms, draw \in HuntSpawns }
    /\ playerPosition = 0
    /\ groundItems = <<>>
    /\ spawned = Len(creatures)
    /\ damageCall = [id |-> 0, dead |-> FALSE]
    /\ attacks = <<>>
    /\ attackClock = [id \in 1..MaxSpawned |-> NoCalls]
    /\ frames = 0
    /\ spawnCall = NoSpawnCall
    /\ inventory = TRUE

HuntFrame ==
    \E deltaTime \in DeltaTimes, draws \in [1..Len(creatures) -> HuntDraws] :
        /\ frames < MaxFrames
        /\ Update(deltaTime, draws)
        /\ frames' = frames + 1
        /\ attackClock' = [id \in 1..MaxSpawned |->
                              clockAfter(attackClock[id], deltaTime, CallsBy(attacks', id))]
        /\ UNCHANGED <<nodeRest, damageCall>>

HuntPlayer ==
    \E x \in PlayerXs : PlayerMoves(x) /\ UNCHANGED <<nodeRest, damageCall, attackClock, frames>>

NextHunt == HuntFrame \/ HuntPlayer

SpecHunt == InitHunt /\ [][NextHunt]_vars

----------------------------------------------------------------------------
(* Combat: the creatures of the initial population are hit until they die,  *)
(* while the player moves about; the dead stay in the list, awaiting the    *)
(* animation frames that remove them.                                       *)

\* Math.random() * totalWeight selecting the rabbit and the wolf
CombatRandoms == {0, 60}

\* spawn positions 20 and 22
CombatSpawns ==
    { [ok |-> TRUE, side |-> 1, random |-> 0], [ok |-> TRUE, side |-> 1, random |-> 3] }

\* the player's attackDamage, bare-handed and with an axe
Damages == {10, 15}

Attackers == {"null", "player"}

\* Math.random() in percent for each entry of dropItems: all low, all high
Rolls == { [k \in 1..3 |-> 25], [k \in 1..3 |-> 90] }

InitCombat ==
    /\ resourceNodes = <<>>
    /\ timeouts = <<>>
    /\ gatherReturn = [node |-> 0, drop |-> Undefined]
    /\ gatherRun = <<>>
    /\ nearestResource = 0
    /\ creatures \in spawnInitialCreatures(maxCreatures, CombatRandoms, CombatSpawns)
    /\ playerPosition = 0
    /\ groundItems = <<>>
    /\ spawned = Len(creatures)
    /\ damageCall = [id |-> 0, dead |-> FALSE]
    /\ attacks = <<>>
    /\ attackClock = <<>>
    /\ frames = 0
    /\ spawnCall = NoSpawnCall
    /\ inventory = TRUE

combatRest == <<nodeRest, damageCall, attackClock, frames>>

NextCombat ==
    \/ \E i \in 1..maxCreatures, damage \in Damages, rolls \in Rolls :
          DamageCreature(i, damage, "player", rolls) /\ UNCHANGED combatRest
    \/ \E x \in PlayerXs : PlayerMoves(x) /\ UNCHANGED combatRest

SpecCombat == InitCombat /\ [][NextCombat]_vars

----------------------------------------------------------------------------
(* One creature at a time: it is hit, also after it died, fades out, and    *)
(* its replacement is spawned after the delay.                              *)

\* Math.random() * totalWeight selecting each of the five species
LoneRandoms == {0, 31, 60, 70, 90}

\* a spawn at 20, and the 20 attempts failing
LoneSpawns ==
    { [ok |-> TRUE, side |-> 1, random |-> 0], [ok |-> FALSE, side |-> 1, random |-> 0] }

Waits == {10000}

InitLone ==
    /\ resourceNodes = <<>>
    /\ timeouts = <<>>
    /\ gatherReturn = [node |-> 0, drop |-> Undefined]
    /\ gatherRun = <<>>
    /\ nearestResource = 0
    /\ creatures \in { spawnRandomCreature(<<>>, 1, random, draw) :
                          random \in LoneRandoms, draw \in LoneSpawns }
    /\ playerPosition = 0
    /\ groundItems = <<>>
    /\ spawned = Len(creatures)
    /\ damageCall = [id |-> 0, dead |-> FALSE]
    /\ attacks = <<>>
    /\ attackClock = <<>>
    /\ frames = 0
    /\ spawnCall = NoSpawnCall
    /\ inventory = TRUE

loneRest == <<nodeRest, attackClock, frames>>

NextLone ==
    \/ \E i \in 1..MaxSpawned, damage \in Damages, attacker \in Attackers, rolls \in Rolls :
          /\ DamageCreature(i, damage, attacker, rolls)
          /\ damageCall' = [id |-> creatures[i].id, dead |-> creatures[i].isDead]
          /\ UNCHANGED loneRest
    \/ FadeOut /\ UNCHANGED <<loneRest, damageCall>>
    \/ \E random \in LoneRandoms, draw \in LoneSpawns :
          SpawnRandomCreature(random, draw) /\ UNCHANGED <<loneRest, damageCall>>
    \/ \E ms \in Waits : Wait(ms) /\ UNCHANGED <<loneRest, damageCall>>

SpecLone == InitLone /\ [][NextLone]_vars

----------------------------------------------------------------------------
(* Spawning: a creature is spawned, killed, fades out, and its replacement  *)
(* is spawned after the delay; every spawn searches its position among the  *)
(* points the random numbers and the terrain give it.                       *)

\* Math.random() * totalWeight selecting the rabbit and the wolf
SpawnRandoms == {0, 60}

\* points in the water and on a peak, at the edges of the land band
Water == [side |-> 1, random |-> 50, height |-> -1]

Peak == [side |-> -1, random |-> 50, height |-> 15]

\* the points of a search whose attempts before the n-th land on bad terrain
candidatesWith(n, bad, good) == [k \in 1..(maxAttempts + 1) |-> IF k < n THEN bad ELSE good]

(* A first point on land at the inner radius; one at the largest distance    *)
(* the draw gives; 19 points in the water and the 20th on land; 20 points on *)
(* a peak, so that only a 21st point would be on land.                       *)
Candidates ==
    { candidatesWith(1, Water, [side |-> 1, random |-> 0, height |-> 0]),
      candidatesWith(1, Water, [side |-> -1, random |-> 99, height |-> 14]),
      candidatesWith(maxAttempts, Water, [side |-> 1, random |-> 75, height |-> 3]),
      candidatesWith(maxAttempts + 1, Peak, [side |-> 1, random |-> 10, height |-> 3]) }

\* the damage and the loot roll of the kills
SpawnDamages == {15}

SpawnRolls == { [k \in 1..3 |-> 25] }

InitSpawn ==
    /\ resourceNodes = <<>>
    /\ timeouts = <<>>
    /\ gatherReturn = [node |-> 0, drop |-> Undefined]
    /\ gatherRun = <<>>
    /\ nearestResource = 0
    /\ creatures \in { spawnRandomCreature(<<>>, 1, random, attemptFrom(candidates, 0)) :
                          random \in SpawnRandoms, candidates \in Candidates }
    /\ playerPosition = 0
    /\ groundItems = <<>>
    /\ spawned = Len(creatures)
    /\ damageCall = [id |-> 0, dead |-> FALSE]
    /\ attacks = <<>>
    /\ attackClock = <<>>
    /\ frames = 0
    /\ spawnCall = NoSpawnCall
    /\ inventory = TRUE

spawnRest ==
    <<resourceNodes, gatherReturn, gatherRun, nearestResource, damageCall, attackClock, frames>>

\* the replacement-spawn callback, with its search recorded
SpawnCallback ==
    \E random \in SpawnRandoms, candidates \in Candidates :
        LET draw == attemptFrom(candidates, 0)
        IN  /\ SpawnRandomCreature(random, draw)
            /\ spawnCall' = [ called |-> TRUE, ok |-> draw.ok, attempts |-> draw.attempts,
                              x |-> findSpawnPosition(draw).x, height |-> draw.height ]
            /\ UNCHANGED spawnRest

NextSpawn ==
    \/ \E i \in 1..MaxSpawned, damage \in SpawnDamages, rolls \in SpawnRolls :
          DamageCreature(i, damage, "player", rolls) /\ UNCHANGED <<spawnRest, spawnCall>>
    \/ FadeOut /\ UNCHANGED <<spawnRest, spawnCall>>
    \/ \E ms \in Waits : Wait(ms) /\ UNCHANGED <<spawnRest, spawnCall>>
    \/ SpawnCallback

SpecSpawn == InitSpawn /\ [][NextSpawn]_vars

----------------------------------------------------------------------------
(* A life: one creature is updated frame by frame, hit (also with damage 0  *)
(* and with more damage than it has health), dies, fades out and is         *)
(* replaced.  The player stands at the centre or next to the spawn point.   *)

\* Math.random() * totalWeight selecting the rabbit and the wolf
LifeRandoms == {0, 60}

LifePlayerXs == {19}

LifeDeltaTimes == {1000}

LifeDraws ==
    { [wander |-> wander, timer |-> 3000, retarget |-> FALSE, offset |-> 10] :
         wander \in BOOLEAN }

LifeDamages == {0, 15}

InitLife ==
    /\ resourceNodes = <<>>
    /\ timeouts = <<>>
    /\ gatherReturn = [node |-> 0, drop |-> Undefined]
    /\ gatherRun = <<>>
    /\ nearestResource = 0
    /\ creatures \in { spawnRandomCreature(<<>>, 1, random, draw) :
                          random \in LifeRandoms, draw \in HuntSpawns }
    /\ playerPosition \in LifePlayerXs
    /\ groundItems = <<>>
    /\ spawned = Len(creatures)
    /\ damageCall = [id |-> 0, dead |-> FALSE]
    /\ attacks = <<>>
    /\ attackClock = <<>>
    /\ frames = 0
    /\ spawnCall = NoSpawnCall
    /\ inventory = TRUE

lifeRest == <<nodeRest, damageCall, attackClock>>

LifeFrame ==
    \E deltaTime \in LifeDeltaTimes, draws \in [1..Len(creatures) -> LifeDraws] :
        /\ frames < MaxFrames
        /\ Update(deltaTime, draws)
        /\ frames' = frames + 1
        /\ UNCHANGED lifeRest

\* a hit, recorded with the frame count at which it was made
LifeHit ==
    \E i \in 1..MaxSpawned, damage \in LifeDamages, rolls \in SpawnRolls :
        /\ DamageCreature(i, damage, "player", rolls)
        /\ damageCall' = [id |-> creatures[i].id, dead |-> creatures[i].isDead, frame |-> frames]
        /\ UNCHANGED <<nodeRest, attackClock, frames>>

NextLife ==
    \/ LifeFrame
    \/ LifeHit
    \/ FadeOut /\ UNCHANGED <<lifeRest, frames>>
    \/ \E ms \in Waits : Wait(ms) /\ UNCHANGED <<lifeRest, frames>>
    \/ \E random \in LifeRandoms, draw \in LoneSpawns :
          SpawnRandomCreature(random, draw) /\ UNCHANGED <<lifeRest, frames>>

SpecLife == InitLife /\ [][NextLife]_vars

----------------------------------------------------------------------------
(* Loot: a creature of any species is updated, hit and killed, with the     *)
(* inventory present or absent, and fades out.  Every drop-table entry has  *)
(* its own roll, below and at each chance of the registry.                  *)

\* Math.random() in percent: below every chance of the registry, and at 0.8
\* (not below 0.5 and 0.8, below 1.0)
RollValues == {30, 80}

LootRolls == [1..3 -> RollValues]

\* a hit of the bare hand, and one that kills every species at once
LootDamages == {10, 100}

InitLoot ==
    /\ resourceNodes = <<>>
    /\ timeouts = <<>>
    /\ gatherReturn = [node |-> 0, drop |-> Undefined]
    /\ gatherRun = <<>>
    /\ nearestResource = 0
    /\ creatures \in { spawnRandomCreature(<<>>, 1, random, draw) :
                          random \in LoneRandoms, draw \in HuntSpawns }
    /\ playerPosition = 0
    /\ groundItems = <<>>
    /\ spawned = Len(creatures)
    /\ damageCall = [id |-> 0, dead |-> FALSE]
    /\ attacks = <<>>
    /\ attackClock = <<>>
    /\ frames = 0
    /\ spawnCall = NoSpawnCall
    /\ inventory \in BOOLEAN

\* the most frames of a run with loot
MaxLootFrames == 2

lootRest == <<nodeRest, attackClock>>

LootFrame ==
    \E deltaTime \in LifeDeltaTimes, draws \in [1..Len(creatures) -> LifeDraws] :
        /\ frames < MaxLootFrames
        /\ Update(deltaTime, draws)
        /\ frames' = frames + 1
        /\ UNCHANGED <<lootRest, damageCall>>

\* a hit, recorded with the rolls dropLoot would use
LootHit ==
    \E i \in 1..MaxSpawned, damage \in LootDamages, rolls \in LootRolls :
        /\ DamageCreature(i, damage, "player", rolls)
        /\ damageCall' = [id |-> creatures[i].id, dead |-> creatures[i].isDead,
                          rolls |-> rolls]
        /\ UNCHANGED <<lootRest, frames>>

NextLoot ==
    \/ LootFrame
    \/ LootHit
    \/ FadeOut /\ UNCHANGED <<lootRest, damageCall, frames>>

SpecLoot == InitLoot /\ [][NextLoot]_vars

----------------------------------------------------------------------------
(* Flight: a rabbit, a deer or a boar is hit, with the player behind it     *)
(* (far away, or next to it) so that it has room to run, and updated in     *)
(* frames of 1 s and 2.5 s.  Each hit is recorded with the update time that *)
(* has passed since.                                                        *)

\* Math.random() * totalWeight selecting the rabbit, the deer and the boar
FleeRandoms == {0, 31, 70}

\* a spawn at -20
FleeSpawns == { [ok |-> TRUE, side |-> -1, random |-> 0] }

\* the player far behind the creature, and next to it
FleePlayerX == -60

FleePlayerXs == {FleePlayerX, -21}

FleeDeltaTimes == {1000, 2500}

\* a hit that does no harm, and the bare hand
FleeDamages == {0, 10}

InitFlee ==
    /\ resourceNodes = <<>>
    /\ timeouts = <<>>
    /\ gatherReturn = [node |-> 0, drop |-> Undefined]
    /\ gatherRun = <<>>
    /\ nearestResource = 0
    /\ creatures \in { spawnRandomCreature(<<>>, 1, random, draw) :
                          random \in FleeRandoms, draw \in FleeSpawns }
    /\ playerPosition = FleePlayerX
    /\ groundItems = <<>>
    /\ spawned = Len(creatures)
    /\ damageCall = [id |-> 0, dead |-> FALSE]
    /\ attacks = <<>>
    /\ attackClock = <<>>
    /\ frames = 0
    /\ spawnCall = NoSpawnCall
    /\ inventory = TRUE

fleeRest == <<nodeRest, attackClock>>

FleeFrame ==
    \E deltaTime \in FleeDeltaTimes, draws \in [1..Len(creatures) -> LifeDraws] :
        /\ frames < MaxFrames
        /\ Update(deltaTime, draws)
        /\ frames' = frames + 1
        /\ damageCall' = IF damageCall.id = 0 THEN damageCall
                         ELSE [damageCall EXCEPT !.since = @ + deltaTime]
        /\ UNCHANGED fleeRest

FleeHit ==
    \E i \in 1..MaxSpawned, damage \in FleeDamages, rolls \in SpawnRolls :
        /\ DamageCreature(i, damage, "player", rolls)
        /\ damageCall' = [id |-> creatures[i].id, dead |-> creatures[i].isDead, since |-> 0]
        /\ UNCHANGED <<fleeRest, frames>>

FleePlayer ==
    \E x \in FleePlayerXs : PlayerMoves(x) /\ UNCHANGED <<fleeRest, damageCall, frames>>

NextFlee == FleeFrame \/ FleeHit \/ FleePlayer

SpecFlee == InitFlee /\ [][NextFlee]_vars

----------------------------------------------------------------------------
(* The closest-node and closest-creature queries: the world holds plants on *)
(* either side of the point 3 and rabbits on either side of the origin; the *)
(* plants are gathered until depleted and the rabbits are killed, and the   *)
(* dead stay in the list.                                                   *)

SurveyTypes == {"plant"}

SurveyNodeXs == {0, 6}

\* spawns at 20 and at -20
SurveySpawns ==
    { [ok |-> TRUE, side |-> 1, random |-> 0], [ok |-> TRUE, side |-> -1, random |-> 0] }

\* Math.random() * totalWeight selecting the rabbit
SurveyRandoms == {0}

SurveyRolls == { [k \in 1..3 |-> 25] }

\* the bare hand: a rabbit dies of one hit
SurveyDamages == {10}

\* no respawn multiplier set
SurveyMultipliers == { [n |-> 1, d |-> 1] }

InitSurvey ==
    /\ resourceNodes \in createdNodes(MaxNodes, SurveyTypes, SurveyNodeXs)
    /\ timeouts = <<>>
    /\ gatherReturn = [node |-> 0, drop |-> Undefined]
    /\ gatherRun = <<>>
    /\ nearestResource = 0
    /\ creatures \in spawnInitialCreatures(maxCreatures, SurveyRandoms, SurveySpawns)
    /\ playerPosition = 0
    /\ groundItems = <<>>
    /\ spawned = Len(creatures)
    /\ damageCall = [id |-> 0, dead |-> FALSE]
    /\ attacks = <<>>
    /\ attackClock = <<>>
    /\ frames = 0
    /\ spawnCall = NoSpawnCall
    /\ inventory = TRUE

NextSurvey ==
    \/ \E i \in 1..MaxNodes, m \in SurveyMultipliers :
          GatherResource(i, m) /\ UNCHANGED <<gatherRun, nearestResource, creatureVars>>
    \/ \E i \in 1..maxCreatures, damage \in SurveyDamages, rolls \in SurveyRolls :
          DamageCreature(i, damage, "player", rolls) /\ UNCHANGED combatRest

SpecSurvey == InitSurvey /\ [][NextSurvey]_vars

----------------------------------------------------------------------------
(* The population: the world starts full, with maxCreatures rabbits at 20;  *)
(* the player, next to them, strikes the nearest again and again; the dead  *)
(* fade out and are replaced after the delay, unless the replacement finds  *)
(* no place.                                                                *)

\* the most replacement spawns of a run that build a creature
MaxReplaced == 1

PopulationDamages == {10}

InitPopulation ==
    /\ resourceNodes = <<>>
    /\ timeouts = <<>>
    /\ gatherReturn = [node |-> 0, drop |-> Undefined]
    /\ gatherRun = <<>>
    /\ nearestResource = 0
    /\ creatures \in spawnInitialCreatures(maxCreatures, SurveyRandoms, HuntSpawns)
    /\ playerPosition = 19
    /\ groundItems = <<>>
    /\ spawned = Len(creatures)
    /\ damageCall = [id |-> 0, dead |-> FALSE]
    /\ attacks = <<>>
    /\ attackClock = <<>>
    /\ frames = 0
    /\ spawnCall = NoSpawnCall
    /\ inventory = TRUE

\* the event loop runs the replacement-spawn callback that is due
ReplacementSpawn(random, draw) ==
    /\ FirstDue # 0
    /\ timeouts[FirstDue].fn = "spawnRandomCreature"
    /\ spawned < maxCreatures + MaxReplaced
    /\ LET after == spawnRandomCreature(creatures, spawned + 1, random, draw)
       IN  /\ creatures' = after
           /\ spawned' = IF Len(after) > Len(creatures) THEN spawned + 1 ELSE spawned
    /\ timeouts' = RemoveAt(timeouts, FirstDue)
    /\ UNCHANGED <<playerPosition, groundItems, attacks, inventory>>

NextPopulation ==
    \/ \E damage \in PopulationDamages, rolls \in SurveyRolls :
          AttemptAttack(damage, rolls) /\ UNCHANGED combatRest
    \/ FadeOut /\ UNCHANGED combatRest
    \/ \E ms \in Waits : Wait(ms) /\ UNCHANGED combatRest
    \/ \E random \in SurveyRandoms, draw \in LoneSpawns :
          ReplacementSpawn(random, draw) /\ UNCHANGED combatRest

SpecPopulation == InitPopulation /\ [][NextPopulation]_vars

----------------------------------------------------------------------------
(* Properties of the resource-node lifecycle *)

Nodes == 1..Len(resourceNodes)

Depleted(i) == i \in Nodes /\ ~resourceNodes[i].canGather

\* the respawn callbacks of node i pending in the callback list ts
PendingOf(ts, i) == { k \in 1..Len(ts) : ts[k].fn = "respawnNode" /\ ts[k].node = i }

\* positions and ranges a caller may query getClosestNode with (5 is the default
\* maxDistance and the player's gatherRange)
QueryXs == {0, 3, 7}

QueryDistances == {5, 10}

\* C1: in every reachable state and for every node, canGather is false if and
\* only if health equals 0.
C1_CanGatherFalseIffHealthZero ==
    \A i \in Nodes : (~resourceNodes[i].canGather) <=> (resourceNodes[i].health = 0)

\* C2: in every reachable state every node's health lies in [0, maxHealth]:
\* gatherResource clamps the decrement at 0.
C2_HealthWithinZeroAndMax ==
    \A i \in Nodes :
        /\ resourceNodes[i].health >= 0
        /\ resourceNodes[i].health <= resourceNodes[i].maxHealth

\* C3, one step: a node is never removed; depletion arms one callback with the
\* full respawn delay; while a node is depleted nothing changes it and its
\* callback stays pending, its time left going down only as time passes; the
\* node is restored (health = maxHealth, canGather) only by the step that runs
\* the callback when it is due.
C3_Step ==
    \A i \in Nodes :
        /\ i \in 1..Len(resourceNodes')
        /\ resourceNodes'[i].type = resourceNodes[i].type
        /\ (resourceNodes[i].canGather /\ ~resourceNodes'[i].canGather) =>
              /\ Cardinality(PendingOf(timeouts', i)) = 1
              /\ \A k \in PendingOf(timeouts', i) : timeouts'[k].left = 60000
        /\ ~resourceNodes[i].canGather =>
              /\ PendingOf(timeouts, i) # {}
              /\ IF resourceNodes'[i].canGather
                 THEN /\ \A k \in PendingOf(timeouts, i) : timeouts[k].left = 0
                      /\ resourceNodes'[i].health = resourceNodes'[i].maxHealth
                      /\ PendingOf(timeouts', i) = {}
                 ELSE /\ resourceNodes'[i] = resourceNodes[i]
                      /\ PendingOf(timeouts', i) # {}
                      /\ \A k \in PendingOf(timeouts, i), j \in PendingOf(timeouts', i) :
                            \/ timeouts'[j].left = timeouts[k].left
                            \/ \E ms \in Elapses :
                                  Elapse(ms) /\ timeouts'[j].left = timeouts[k].left - ms

\* C3, every state: a depleted node is not returned by getClosestNode and its
\* callback has between 0 and 60 s left.
C3_State ==
    \A i \in Nodes :
        ~resourceNodes[i].canGather =>
            /\ \A p \in QueryXs, d \in QueryDistances :
                  getClosestNode(resourceNodes, p, d) # i
            /\ \A k \in PendingOf(timeouts, i) :
                  timeouts[k].left >= 0 /\ timeouts[k].left <= 60000

\* C3: respawn round-trip.  Once depleted a node stays depleted (not gatherable,
\* not returned by getClosestNode, gather a no-op) for the whole 60 s delay, is
\* then restored to health = maxHealth and canGather = true; the armed timer
\* always fires, nothing cancels or postpones it, and the node is never removed.
C3_RespawnRoundTrip ==
    /\ [][C3_Step]_vars
    /\ []C3_State
    /\ \A i \in 1..MaxNodes :
          Depleted(i) ~>
            ( /\ i \in Nodes
              /\ resourceNodes[i].canGather
              /\ resourceNodes[i].health = resourceNodes[i].maxHealth )

\* a node depleted 30 s ago, still depleted, on which a gather call was just refused
C3_Witness ==
    \E i \in Nodes :
        /\ ~resourceNodes[i].canGather
        /\ \E k \in PendingOf(timeouts, i) : timeouts[k].left = 30000
        /\ gatherReturn = [node |-> i, drop |-> Null]
        /\ resourceNodes[i].type = "plant"
        /\ \E j \in Nodes : resourceNodes[j].canGather /\ resourceNodes[j].indicator

\* C4: a fresh node with maxHealth 5 (a tree) is depleted by exactly the 5th
\* accepted gather call when every call had a multiplier below 2, and by exactly
\* the 3rd when every call had a multiplier of at least 2; a call deals 2 when
\* the multiplier is at least 2 and 1 otherwise (1.5 deals 1).
C4_DepletionCount ==
    \A i \in Nodes :
        resourceNodes[i].maxHealth = 5 =>
            /\ gatherRun[i].allWeak =>
                  /\ resourceNodes[i].health = 5 - gatherRun[i].calls
                  /\ resourceNodes[i].canGather <=> gatherRun[i].calls < 5
            /\ gatherRun[i].allStrong =>
                  /\ resourceNodes[i].health = 5 - 2 * gatherRun[i].calls
                  /\ resourceNodes[i].canGather <=> gatherRun[i].calls < 3

\* one tree depleted by five calls below 2x and one by three calls of at least 2x
C4_Witness ==
    \E i, j \in Nodes :
        /\ ~resourceNodes[i].canGather
        /\ gatherRun[i] = [calls |-> 5, allWeak |-> TRUE, allStrong |-> FALSE]
        /\ ~resourceNodes[j].canGather
        /\ gatherRun[j] = [calls |-> 3, allWeak |-> FALSE, allStrong |-> TRUE]

\* the drop the claim expects of a node type: wood x1, stone x1, fiber x2
ExpectedBase(type) ==
    IF type = "tree" THEN [type |-> "wood", amount |-> 1]
    ELSE IF type = "rock" THEN [type |-> "stone", amount |-> 1]
    ELSE [type |-> "fiber", amount |-> 2]

\* C5: every gatherResource call on a gatherable tree, rock or plant returns
\* wood, stone or fiber with amount floor(base amount x multiplier), also on the
\* call that depletes the node.
C5_DropScaled ==
    [][ \A i \in Nodes, m \in Multipliers :
          ( /\ resourceNodes[i].canGather
            /\ resourceNodes[i].type \in {"tree", "rock", "plant"}
            /\ GatherResource(i, m) ) =>
              /\ gatherReturn'.node = i
              /\ gatherReturn'.drop.type = ExpectedBase(resourceNodes[i].type).type
              /\ gatherReturn'.drop.amount * m.d <= ExpectedBase(resourceNodes[i].type).amount * m.n
              /\ (gatherReturn'.drop.amount + 1) * m.d > ExpectedBase(resourceNodes[i].type).amount * m.n
      ]_vars

\* a tree just depleted (its callback still has the full delay) by a call that
\* returned 2 wood
C5_Witness ==
    \E i \in Nodes :
        /\ resourceNodes[i].type = "tree"
        /\ ~resourceNodes[i].canGather
        /\ \E k \in PendingOf(timeouts, i) : timeouts[k].left = 60000
        /\ gatherReturn = [node |-> i, drop |-> [type |-> "wood", amount |-> 2]]

\* C6: gatherResource on a node whose canGather is false returns null and
\* changes nothing: the nodes and the pending callbacks stay as they are, so no
\* further respawn timer is armed.
C6_GatherDepletedNoOp ==
    [][ \A i \in Nodes, m \in RespawnMultipliers :
          (~resourceNodes[i].canGather /\ GatherResource(i, m)) =>
              /\ gatherReturn'.drop = Null
              /\ resourceNodes' = resourceNodes
              /\ timeouts' = timeouts
      ]_vars

\* a plant, depleted 30 s ago, whose last gather call returned null
C6_Witness ==
    \E i \in Nodes :
        /\ resourceNodes[i].type = "plant"
        /\ ~resourceNodes[i].canGather
        /\ Cardinality(PendingOf(timeouts, i)) = 1
        /\ \E k \in PendingOf(timeouts, i) : timeouts[k].left = 30000
        /\ gatherReturn = [node |-> i, drop |-> Null]

----------------------------------------------------------------------------
(* Properties of the creatures *)

Creatures == 1..Len(creatures)

\* the maxDistance the player's attack passes (attackRange) and the default
ClosestDistances == {3, 5}

\* C7: in every reachable state a creature with isDead has health 0, and
\* getClosestCreature does not return a creature with isDead, also while the
\* dead creature is still in the list.
C7_DeadHaveNoHealthAndAreSkipped ==
    /\ \A i \in Creatures : creatures[i].isDead => creatures[i].health = 0
    /\ \A maxDistance \in ClosestDistances :
          LET closest == getClosestCreature(creatures, playerPosition, maxDistance)
          IN  closest = 0 \/ ~creatures[closest].isDead

\* a dead creature nearer to the player than a live one, both within reach:
\* the live one is returned
C7_Witness ==
    \E i, j \in Creatures :
        /\ creatures[i].isDead
        /\ ~creatures[j].isDead
        /\ distanceTo(playerPosition, creatures[i].position)
              < distanceTo(playerPosition, creatures[j].position)
        /\ getClosestCreature(creatures, playerPosition, 5) = j

\* C8: damageCreature on a creature that is already dead changes nothing, for
\* every damage, attacker and loot roll: the creature keeps its health, isDead,
\* state, stateTimer and target, no createGroundItem call is made, no further
\* fadeOut runs and no replacement spawn is scheduled.
C8_DamageDeadNoOp ==
    [][ \A i \in Creatures, damage \in Damages, attacker \in Attackers, rolls \in Rolls :
          (creatures[i].isDead /\ DamageCreature(i, damage, attacker, rolls)) =>
              /\ creatures' = creatures
              /\ groundItems' = groundItems
              /\ timeouts' = timeouts
      ]_vars

\* a wolf that died, dropped its loot, has faded for some frames, and was then
\* hit again
C8_Witness ==
    \E i \in Creatures :
        /\ creatures[i].isDead
        /\ creatures[i].species = "wolf"
        /\ creatures[i].scale < 900000
        /\ damageCall = [id |-> creatures[i].id, dead |-> TRUE]
        /\ Len(groundItems) = 2

\* the step is a frame of the hunt
IsFrame == frames' = frames + 1

\* C9: a live aggressive creature that starts a frame idle or wandering with the
\* player nearer than detectionRange ends it in chase; a live creature that
\* starts a frame in chase with the player farther than 1.5 x detectionRange
\* (and not nearer than attackRange) ends it idle with its target cleared.
C9_DetectAndLose ==
    [][ IsFrame =>
          \A i \in Creatures :
              LET creature == creatures[i]
                  species == speciesData(creature)
                  distanceToPlayer == distanceTo(creature.position, playerPosition)
              IN  /\ ( /\ ~creature.isDead
                       /\ species.behavior = "aggressive"
                       /\ creature.state \in {"idle", "wander"}
                       /\ distanceToPlayer < species.detectionRange )
                        => creatures'[i].state = "chase"
                  /\ ( /\ ~creature.isDead
                       /\ creature.state = "chase"
                       /\ 2 * distanceToPlayer > 3 * species.detectionRange
                       /\ ~(10 * distanceToPlayer < species.attackRange) )
                        => /\ creatures'[i].state = "idle"
                           /\ creatures'[i].target = "null"
      ]_vars

PendingSpawns(ts) == { k \in 1..Len(ts) : ts[k].fn = "spawnRandomCreature" }

\* the step runs the replacement-spawn callback that is due
IsSpawnCallback ==
    /\ FirstDue # 0
    /\ timeouts[FirstDue].fn = "spawnRandomCreature"
    /\ timeouts' = RemoveAt(timeouts, FirstDue)

\* C11: every creature that leaves the list by death arms exactly one
\* replacement callback with the full 10 s delay, and the callback, when it
\* runs, adds exactly one creature to the list (never none, never more), so
\* that the population returns to where it was.
C11_OneReplacementPerDeath ==
    [][ /\ Len(creatures') < Len(creatures) =>
              /\ Len(creatures') = Len(creatures) - 1
              /\ Cardinality(PendingSpawns(timeouts')) = Cardinality(PendingSpawns(timeouts)) + 1
              /\ timeouts'[Len(timeouts')] = spawnTimeout
        /\ IsSpawnCallback => Len(creatures') = Len(creatures) + 1
        /\ Len(creatures') > Len(creatures) => IsSpawnCallback
      ]_vars

\* whether node i of the list is gatherable and within the player's gather range
InGatherRange(nodes, i, position) ==
    nodes[i].canGather /\ distanceTo(position, nodes[i].position) < gatherRange

\* C12: at the end of every frame of the player, for every node, the gather
\* indicator is visible if and only if the node's canGather is true and the
\* player is within gather range of it.
C12_IndicatorContract ==
    [][ PlayerFrame =>
          \A i \in 1..Len(resourceNodes') :
              resourceNodes'[i].indicator
                  <=> InGatherRange(resourceNodes', i, playerPosition')
      ]_vars

----------------------------------------------------------------------------
(* Properties of the spawn routine *)

\* C14: spawnRandomCreature never selects a species whose spawnWeight is 0,
\* whatever the draw in [0, total weight) and wherever the species stands in
\* the registry.
C14_ZeroWeightNeverSelected ==
    spawnCall.called => spawnCall.weights[spawnCall.selected] # 0

\* the draws strictly between two whole numbers (the odd numbers of halves)
InnerDraws(weights) == { d \in DrawsOf(weights) : d % 2 = 1 }

\* C15: the species selected is the one whose cumulative-weight interval holds
\* the draw: a draw inside the interval of species j selects j, the draw that
\* selected species i lies in the interval of i (its end points included), and
\* so, of the total-weight many unit steps of the draw, as many select species
\* j as its weight says (30, 20, 15, 18 and 8 of 91 for the shipped registry).
C15_SelectionProportional ==
    spawnCall.called =>
        LET weights == spawnCall.weights
            Species == 1..Len(weights)
            lower(j) == 2 * totalWeight(weights, j - 1)
            upper(j) == 2 * totalWeight(weights, j)
        IN  /\ spawnCall.selected \in Species
            /\ lower(spawnCall.selected) <= spawnCall.random
            /\ spawnCall.random <= upper(spawnCall.selected)
            /\ \A j \in Species :
                  /\ (lower(j) < spawnCall.random /\ spawnCall.random < upper(j))
                        => spawnCall.selected = j
                  /\ Cardinality({ d \in InnerDraws(weights) :
                                     selectAmong(inHalves(weights), 1, d) = j }) = weights[j]

\* the draw 83.5 of 91 over the shipped registry selected the bear, the last
\* species, whose interval is the last 8 of the 91
C15_Witness ==
    /\ spawnCall.called
    /\ spawnCall.weights = <<30, 20, 15, 18, 8>>
    /\ spawnCall.random = 167
    /\ spawnCall.selected = 5
    /\ initializeSpecies[spawnCall.selected].id = "bear"

\* C16: every creature the spawn routine creates stands at a distance from the
\* world centre between the inner radius 20 and the outer radius spawnRadius
\* (80), on terrain whose height is inside the land band (-1 < height < 15).
C16_SpawnInsideAnnulus ==
    /\ \A i \in Creatures :
          /\ Abs(creatures[i].position) >= 20
          /\ Abs(creatures[i].position) <= spawnRadius
    /\ (spawnCall.called /\ spawnCall.ok) =>
          /\ Abs(spawnCall.x) >= 20
          /\ Abs(spawnCall.x) <= spawnRadius
          /\ spawnCall.height > -1
          /\ spawnCall.height < 15

\* whether the points findSpawnPosition may sample all miss the land band
NoneValid(candidates) == \A k \in 1..maxAttempts : ~validHeight(candidates[k].height)

\* C17: findSpawnPosition samples at most 20 points, and when none of them has
\* a valid terrain height spawnRandomCreature creates no creature and leaves
\* the creatures as they are; the call completes (the callback is done with)
\* and nothing else changes.
C17_FailedSpawnHarmless ==
    /\ [](spawnCall.called => spawnCall.attempts <= 20)
    /\ [][ \A random \in SpawnRandoms, candidates \in Candidates :
             ( /\ NoneValid(candidates)
               /\ SpawnRandomCreature(random, attemptFrom(candidates, 0)) ) =>
                 /\ creatures' = creatures
                 /\ spawned' = spawned
                 /\ groundItems' = groundItems
                 /\ timeouts' = RemoveAt(timeouts, FirstDue)
                 /\ ~spawnCall'.ok
         ]_vars

\* a creature died and was removed, and the replacement spawn gave up after 20
\* points: the list is empty and no callback is pending
C17_Witness ==
    /\ spawnCall.called
    /\ ~spawnCall.ok
    /\ spawnCall.attempts = 20
    /\ creatures = <<>>
    /\ timeouts = <<>>
    /\ groundItems # <<>>

----------------------------------------------------------------------------
(* Properties of a creature's life *)

\* C18: in every state between operations every creature's health lies in
\* [0, maxHealth], and no step (a hit of any damage >= 0, a frame, a fade-out
\* step, time passing) raises the health of a creature.
C18_HealthBoundedNonIncreasing ==
    /\ [](\A i \in Creatures :
             creatures[i].health >= 0 /\ creatures[i].health <= creatures[i].maxHealth)
    /\ [][ \A i \in Creatures, j \in 1..Len(creatures') :
             creatures'[j].id = creatures[i].id =>
                 creatures'[j].health <= creatures[i].health
         ]_vars

\* a rabbit (health 10) killed by a hit of 15 after at least one frame: its
\* health is 0, not -5
C18_Witness ==
    \E i \in Creatures :
        /\ creatures[i].species = "rabbit"
        /\ creatures[i].isDead
        /\ creatures[i].health = 0
        /\ damageCall.id = creatures[i].id
        /\ ~damageCall.dead
        /\ damageCall.frame >= 1

\* C19: update leaves a dead creature as it is: its state, stateTimer, target,
\* position and velocity do not change and its lastAttackTime stays where it
\* was on the clock (so it is deltaTime further in the past), and no
\* performAttack call is made for it.
C19_DeadNotUpdated ==
    [][ IsFrame =>
          \A i \in Creatures :
              creatures[i].isDead =>
                  /\ i \in 1..Len(creatures')
                  /\ \E deltaTime \in LifeDeltaTimes :
                        creatures'[i] = aged(creatures, deltaTime)[i]
                  /\ CallsBy(attacks', creatures[i].id) = 0
      ]_vars

\* a wolf killed one unit from the player, in chase of the player, and still
\* in the list when a later frame ran
C19_Witness ==
    \E i \in Creatures :
        /\ creatures[i].species = "wolf"
        /\ creatures[i].isDead
        /\ creatures[i].state = "chase"
        /\ distanceTo(creatures[i].position, playerPosition) = 1
        /\ damageCall.id = creatures[i].id
        /\ ~damageCall.dead
        /\ damageCall.frame < frames

\* the ids of the creatures of a list, in its order
ids(list) == [i \in 1..Len(list) |-> list[i].id]

\* C20: update does not add a creature to the list nor remove one, also with a
\* dead creature in it; neither does damageCreature, also when the hit kills;
\* the list changes only in a fadeOut callback (removal) and in the
\* replacement-spawn callback (addition), which run between the frames.
C20_ListChangesOnlyInCallbacks ==
    [][ /\ IsFrame => ids(creatures') = ids(creatures)
        /\ (damageCall' # damageCall) => ids(creatures') = ids(creatures)
        /\ ids(creatures') # ids(creatures) =>
              \/ FadeOut /\ Len(creatures') < Len(creatures)
              \/ IsSpawnCallback /\ Len(creatures') = Len(creatures) + 1
      ]_vars

\* a rabbit killed in an earlier frame is half faded and still in the list
\* after a later frame
C20_Witness ==
    \E i \in Creatures :
        /\ creatures[i].species = "rabbit"
        /\ creatures[i].isDead
        /\ creatures[i].scale < 500000
        /\ damageCall.id = creatures[i].id
        /\ damageCall.frame < frames

----------------------------------------------------------------------------
(* Properties of death and loot *)

\* the step is a hit that kills creature i
Kills(i) ==
    /\ i \in 1..Len(creatures')
    /\ ~creatures[i].isDead
    /\ creatures'[i].isDead
    /\ creatures'[i].id = creatures[i].id

\* C21: without the inventory a lethal hit still leaves the creature dead with
\* health 0 and its fade-out running, creates no ground item, and the
\* fade-out still removes the creature and schedules one replacement spawn.
C21_DeathWithoutInventory ==
    /\ [](~inventory => groundItems = <<>>)
    /\ [][ ~inventory =>
             /\ \A i \in Creatures :
                   Kills(i) =>
                       /\ creatures'[i].health = 0
                       /\ creatures'[i].scale < creatures[i].scale
                       /\ groundItems' = groundItems
             /\ Len(creatures') < Len(creatures) =>
                   /\ creatures' = <<>>
                   /\ Cardinality(PendingSpawns(timeouts'))
                        = Cardinality(PendingSpawns(timeouts)) + 1
         ]_vars

\* a creature was killed without the inventory, has faded out and left the list,
\* its replacement is scheduled and nothing lies on the ground
C21_Witness ==
    /\ ~inventory
    /\ damageCall.id = 1
    /\ ~damageCall.dead
    /\ creatures = <<>>
    /\ Cardinality(PendingSpawns(timeouts)) = 1
    /\ groundItems = <<>>
    /\ spawned = 1

\* C26: with the inventory present, a lethal hit makes one createGroundItem
\* call for each drop-table entry whose own roll is below its chance, and for
\* no other: the calls come in the table's order, carry the table's type and
\* amount and the position the creature has when it dies, and every entry of
\* chance 1.0 is among them.
C26_LootPerEntry ==
    [][ inventory =>
          \A i \in Creatures :
              Kills(i) =>
                  LET table == speciesData(creatures[i]).dropItems
                      rolls == damageCall'.rolls
                      chosen == SelectSeq([k \in 1..Len(table) |-> k],
                                          LAMBDA k : rolls[k] < table[k].chance)
                      calls == SubSeq(groundItems', Len(groundItems) + 1, Len(groundItems'))
                  IN  /\ Len(groundItems') >= Len(groundItems)
                      /\ SubSeq(groundItems', 1, Len(groundItems)) = groundItems
                      /\ calls = [j \in 1..Len(chosen) |->
                                    [ type |-> table[chosen[j]].type,
                                      amount |-> table[chosen[j]].amount,
                                      x |-> creatures[i].position ]]
                      /\ \A k \in 1..Len(table) :
                            table[k].chance = 100 =>
                                \E j \in 1..Len(calls) : calls[j].type = table[k].type
      ]_vars

\* a deer that fled from 20 to 32 and died there left its meat at 32 and,
\* its second roll not being below 0.8, no hide
C26_Witness ==
    \E i \in Creatures :
        /\ inventory
        /\ creatures[i].species = "deer"
        /\ creatures[i].isDead
        /\ creatures[i].position = 32
        /\ damageCall.id = creatures[i].id
        /\ damageCall.rolls[2] = 80
        /\ groundItems = << [type |-> "meat", amount |-> 3, x |-> 32] >>

----------------------------------------------------------------------------
(* Properties of the state timer and of the chase *)

\* C22: a frame sets a live creature that starts it in chase or attack to
\* idle only from chase and only when the player is farther than
\* 1.5 x detectionRange; the state timer never does.
C22_TimerIdlesOnlyWanderOrFlee ==
    [][ IsFrame =>
          \A i \in Creatures :
              LET creature == creatures[i]
                  species == speciesData(creature)
                  distanceToPlayer == distanceTo(creature.position, playerPosition)
              IN  ( /\ ~creature.isDead
                    /\ creature.state \in {"chase", "attack"}
                    /\ creatures'[i].state = "idle" )
                     => /\ creature.state = "chase"
                        /\ 2 * distanceToPlayer > 3 * species.detectionRange
      ]_vars

\* the duration damageCreature gives a flight, in ms
fleeDuration == 5000

\* the live creature the last damageCreature call hit
LastHit(i) ==
    /\ damageCall.id = creatures[i].id
    /\ ~damageCall.dead
    /\ ~creatures[i].isDead

\* C23 as stated: a live creature put in flee by a hit is in flee after every
\* tick while the ticks since the last hit total less than 5000 ms, with the
\* full 5000 ms counted from the last hit, and after the tick at which they
\* reach 5000 ms it is idle.
C23_FleeEndsIdle ==
    /\ [](\A i \in Creatures :
             (LastHit(i) /\ damageCall.since < fleeDuration) =>
                 /\ creatures[i].state = "flee"
                 /\ creatures[i].stateTimer = fleeDuration - damageCall.since)
    /\ [][ \A i \in Creatures :
             ( /\ LastHit(i)
               /\ IsFrame
               /\ damageCall.since < fleeDuration
               /\ damageCall'.since >= fleeDuration ) => creatures'[i].state = "idle"
         ]_vars

\* C23, amended: as above, but the tick at which the ticks reach 5000 ms
\* ends the flight and runs the idle handler at once, so the creature ends
\* that tick idle or wandering, and it is never in flee afterwards.
C23_FleeEnds ==
    \A i \in Creatures :
        LastHit(i) =>
            /\ damageCall.since < fleeDuration =>
                  /\ creatures[i].state = "flee"
                  /\ creatures[i].stateTimer = fleeDuration - damageCall.since
            /\ damageCall.since >= fleeDuration =>
                  /\ creatures[i].state \in {"idle", "wander"}
                  /\ creatures[i].stateTimer <= 0 \/ creatures[i].state = "wander"

\* a rabbit hit without harm has been updated for exactly 5000 ms and ends
\* the last tick wandering
C23_Witness ==
    \E i \in Creatures :
        /\ LastHit(i)
        /\ creatures[i].species = "rabbit"
        /\ damageCall.since = fleeDuration
        /\ creatures[i].state = "wander"
        /\ creatures[i].stateTimer = 3000

\* C24: in a frame a live creature enters attack only from chase and only with
\* the player nearer than attackRange; one that stays in attack ends the frame
\* with velocity zero; one in attack is in chase after the frame exactly when
\* the player is farther than 1.2 x attackRange, and then it made no
\* performAttack call.
C24_ChaseAttackHysteresis ==
    [][ IsFrame =>
          \A i \in Creatures :
              LET creature == creatures[i]
                  species == speciesData(creature)
                  distanceToPlayer == distanceTo(creature.position, playerPosition)
                  farther == 100 * distanceToPlayer > 12 * species.attackRange
              IN  ~creature.isDead =>
                    /\ (creature.state # "attack" /\ creatures'[i].state = "attack") =>
                          /\ creature.state = "chase"
                          /\ 10 * distanceToPlayer < species.attackRange
                    /\ (creature.state = "attack" /\ creatures'[i].state = "attack") =>
                          creatures'[i].velocity = 0
                    /\ creature.state = "attack" =>
                          /\ creatures'[i].state = "chase" <=> farther
                          /\ farther => CallsBy(attacks', creature.id) = 0
      ]_vars

----------------------------------------------------------------------------
(* Properties of the queries *)

\* positions and ranges a caller may query with
SurveyXs == {0, 3, 21}

SurveyDistances == {3, 5, 25}

\* r is the first of the candidates at the least distance from position, or 0
\* when there is no candidate; at(i) is the position of candidate i
IsClosest(r, candidates, at(_), position) ==
    IF candidates = {} THEN r = 0
    ELSE /\ r \in candidates
         /\ \A j \in candidates :
               /\ distanceTo(position, at(r)) <= distanceTo(position, at(j))
               /\ distanceTo(position, at(j)) = distanceTo(position, at(r)) => r <= j

\* C25: getClosestCreature returns the first of the live creatures at the
\* least distance among those strictly nearer than maxDistance, and null when
\* there is none; getClosestNode does the same over the nodes with canGather.
C25_ClosestQueries ==
    \A position \in SurveyXs, maxDistance \in SurveyDistances :
        /\ IsClosest(getClosestCreature(creatures, position, maxDistance),
                     { i \in Creatures :
                          /\ ~creatures[i].isDead
                          /\ distanceTo(position, creatures[i].position) < maxDistance },
                     LAMBDA i : creatures[i].position, position)
        /\ IsClosest(getClosestNode(resourceNodes, position, maxDistance),
                     { i \in Nodes :
                          /\ resourceNodes[i].canGather
                          /\ distanceTo(position, resourceNodes[i].position) < maxDistance },
                     LAMBDA i : resourceNodes[i].position, position)

\* two live rabbits 20 units on either side of the origin: the first is
\* returned for the origin; two plants 3 units on either side of the point 3,
\* the first depleted: the second is returned within 5, none within 3
C25_Witness ==
    /\ Len(creatures) >= 2
    /\ ~creatures[1].isDead /\ ~creatures[2].isDead
    /\ creatures[1].position = -20 /\ creatures[2].position = 20
    /\ getClosestCreature(creatures, 0, 25) = 1
    /\ getClosestCreature(creatures, 21, 3) = 2
    /\ Len(resourceNodes) >= 2
    /\ ~resourceNodes[1].canGather /\ resourceNodes[2].canGather
    /\ resourceNodes[1].position = 0 /\ resourceNodes[2].position = 6
    /\ getClosestNode(resourceNodes, 3, 5) = 2
    /\ getClosestNode(resourceNodes, 3, 3) = 0

----------------------------------------------------------------------------
(* Properties of the population *)

\* C27: the creatures in the list (the dying included) and the pending
\* replacement spawns together never number more than maxCreatures, and a
\* replacement is scheduled only in a step that takes a creature out of the
\* list, one for each creature taken out.
C27_PopulationBound ==
    /\ [](Len(creatures) + Cardinality(PendingSpawns(timeouts)) <= maxCreatures)
    /\ [][ Cardinality(PendingSpawns(timeouts')) > Cardinality(PendingSpawns(timeouts)) =>
             Len(creatures) - Len(creatures')
               = Cardinality(PendingSpawns(timeouts')) - Cardinality(PendingSpawns(timeouts))
         ]_vars

\* the population is back at maxCreatures after a replacement was spawned,
\* and another rabbit has since been removed and awaits its replacement
C27_Witness ==
    /\ spawned > maxCreatures
    /\ Cardinality(PendingSpawns(timeouts)) = 1
    /\ Len(creatures) = maxCreatures - 1
    /\ \E i \in Creatures : creatures[i].id = spawned

----------------------------------------------------------------------------
(* Properties of the respawn timers and of the value gatherResource returns *)

\* C29: a node has at most one pending respawn timer, it has one exactly when
\* its canGather is false, and no step arms a timer for a node that is
\* already depleted.
C29_OneRespawnTimer ==
    /\ [](\A i \in Nodes :
             /\ Cardinality(PendingOf(timeouts, i)) <= 1
             /\ Cardinality(PendingOf(timeouts, i)) = 1 <=> ~resourceNodes[i].canGather)
    /\ [][ \A i \in Nodes :
             ~resourceNodes[i].canGather =>
                 Cardinality(PendingOf(timeouts', i)) <= Cardinality(PendingOf(timeouts, i))
         ]_vars

\* two nodes depleted 30 s apart, each with its one timer, and a gather call
\* on the first of them just refused
C29_Witness ==
    /\ Len(resourceNodes) >= 2
    /\ ~resourceNodes[1].canGather
    /\ ~resourceNodes[2].canGather
    /\ \E k \in PendingOf(timeouts, 1) : timeouts[k].left = 30000
    /\ \E k \in PendingOf(timeouts, 2) : timeouts[k].left = 60000
    /\ gatherReturn = [node |-> 1, drop |-> Null]

\* C30: a gatherResource call that lowers a node's health (or depletes it)
\* returns a drop, and one that leaves the nodes as they were returns null,
\* for nodes of every type.
C30_NullIffUnchanged ==
    [][ /\ \A i \in Nodes :
              ( /\ Len(resourceNodes') = Len(resourceNodes)
                /\ resourceNodes'[i].health < resourceNodes[i].health ) =>
                  /\ gatherReturn'.node = i
                  /\ gatherReturn'.drop # Null
        /\ (gatherReturn' # gatherReturn /\ resourceNodes' = resourceNodes) =>
              gatherReturn'.drop = Null
      ]_vars
====
